---- MODULE Spec2Model ----
(***************************************************************************)
(* The UI control layer of src/ui/mod.rs: the `ui` system (one frame of    *)
(* the egui menus, with at most one widget activated per frame), the       *)
(* `file_dialog` system, and the three update systems, run once each per   *)
(* frame ("pass").  Bevy's change detection (is_changed, Changed<T>) is    *)
(* kept as one flag per observing system: every DerefMut access by another *)
(* system sets it, the observer's own run clears it.                       *)
(*                                                                         *)
(* Floats are fixed-point integers in units of 1e-7.                       *)
(***************************************************************************)
EXTENDS Integers, Sequences, FiniteSets, TLC

\* ------------------------------------------------------------- bounds
\* Number of frames explored.
MaxPasses == 3

\* ---------------------------------------------------------- constants
\* 1.0 (the fallback range (-1.0, 1.0) of line 263).
One == 10000000
\* 0.00001, the margin of the slider's range (line 383).
SliderEps == 100
\* 0.0000001, the "botch fix" offset of the slicing hyperplane (line 503).
BotchEps == 1

\* Option<T>
None == <<>>
Some(x) == <<x>>
IsSome(o) == Len(o) = 1
Unwrap(o) == o[1]

\* ------------------------------------------------------ input domains
\* Files the dialogs and the library can name.
Paths == {1, 2}
\* SelectedLanguage::iter()
Languages == {"En", "Es"}
\* What p.x_minmax() can answer: no vertices, an extent (-2.0, 3.0), a
\* zero extent (all vertices on the hyperplane x = 0).
MinmaxAnswers == {None, Some(<<-2 * One, 3 * One>>), Some(<<0, 0>>)}
\* What r.dim() can answer.
DimAnswers == {None, Some(3)}

Systems == {"ui", "update_cross_section", "update_changed_polytopes",
            "update_language", "file_dialog"}

\* ----------------------------------------- the polytope collaborators
\* A Concrete is the sequence of constructions that made it; the geometry
\* itself lives outside this file.
Step(op, args) == [op |-> op, args |-> args]
Setup == <<Step("setup", <<>>)>>
from_path(path) == <<Step("from_path", <<path>>)>>
dual_mut(p) == Append(p, Step("dual", <<>>))
pyramid(p) == Append(p, Step("pyramid", <<>>))
prism(p) == Append(p, Step("prism", <<>>))
tegum(p) == Append(p, Step("tegum", <<>>))
recenter(p) == Append(p, Step("recenter", <<>>))
flatten(p) == Append(p, Step("flatten", <<>>))
facet(p, i) == Append(p, Step("facet", <<i>>))
verf(p, i) == Append(p, Step("verf", <<i>>))
\* Hyperplane::x(dim, pos)
HyperplaneX(dim, pos) == <<dim, pos>>
slice(p, h) == Append(p, Step("slice", h))
flatten_into(p, h) == Append(p, Step("flatten_into", h))
recenter_with(p, h) == Append(p, Step("recenter_with", h))
\* p.name(), and its renderings in a language
name(p) == p
parse_uppercase(lang, n) == [lang |-> lang, name |-> n, uppercase |-> TRUE]
parse(lang, n) == [lang |-> lang, name |-> n, uppercase |-> FALSE]
get_mesh(p, proj) == [kind |-> "mesh", poly |-> p, projection |-> proj]
get_wireframe(p, proj) == [kind |-> "wireframe", poly |-> p, projection |-> proj]

\* ------------------------------------------------------- SectionState
Inactive == [tag |-> "Inactive"]
Active(orig, mm, pos, flat) ==
    [tag |-> "Active", original_polytope |-> orig, minmax |-> mm,
     hyperplane_pos |-> pos, flatten |-> flat]
IsActive(s) == s.tag = "Active"

\* SectionState::reset
reset_keeps(s) == s
reset(s) == Inactive

\* SectionState::set_pos
set_pos(s, pos) ==
    IF IsActive(s) THEN [s EXCEPT !.hyperplane_pos = pos] ELSE s

\* SectionState::set_flat
set_flat_recentres(s, flat) ==
    IF IsActive(s)
    THEN [s EXCEPT !.flatten = flat,
                   !.hyperplane_pos = (s.minmax[1] + s.minmax[2]) \div 2]
    ELSE s
set_flat(s, flat) ==
    IF IsActive(s) THEN [s EXCEPT !.flatten = flat] ELSE s

\* The Inactive arm of the Cross-section toggle: mm is p.x_minmax().
MidpointAtMin(mm) == mm[1]
Midpoint(mm) == (mm[1] + mm[2]) \div 2
FallbackMinmaxUnit == <<0, One>>
FallbackMinmax == <<-One, One>>
UnwrapOr(o, d) == IF IsSome(o) THEN Unwrap(o) ELSE d
Activate(p, answer) ==
    LET minmax == UnwrapOr(answer, FallbackMinmax)
    IN  Active(p, minmax, Midpoint(minmax), FALSE)

\* The toggle itself.
Toggle(s, p, answer) == IF IsActive(s) THEN Inactive ELSE Activate(p, answer)

\* --------------------------------------------------- FileDialogState
FileDialogDefault == [mode |-> "Disabled", name |-> None]
\* FileDialogState::open
open(fd) == [fd EXCEPT !.mode = "Open"]
\* FileDialogState::save
save_without_name(fd, n) == [fd EXCEPT !.mode = "Save"]
save(fd, n) == [fd EXCEPT !.mode = "Save", !.name = Some(n)]

\* ProjectionType::flip
flip(pt) == IF pt = "Perspective" THEN "Orthogonal" ELSE "Perspective"

VARIABLES
    concrete,            \* the one Concrete entity (the live shape)
    section_state,       \* Res<SectionState>
    file_dialog_state,   \* Res<FileDialogState>
    projection_type,     \* Res<ProjectionType>
    selected_language,   \* Res<SelectedLanguage>
    meshes,              \* the solid mesh and the wireframe mesh
    title,               \* the primary window's title
    changed,             \* per observing system: is its input changed?
    ran,                 \* the systems that have run in the current pass
    status,              \* "running", "exited" or "panicked"
    passes,              \* passes started so far
    ev,                  \* the input of the current pass
    pre,                 \* the state at the start of the current pass
    io,                  \* collaborator calls and messages of this pass
    wrote                \* <<system, entity>> writes of this pass

vars == <<concrete, section_state, file_dialog_state, projection_type,
          selected_language, meshes, title, changed, ran, status, passes,
          ev, pre, io, wrote>>

Snapshot ==
    [concrete |-> concrete, section_state |-> section_state,
     file_dialog_state |-> file_dialog_state, meshes |-> meshes,
     title |-> title, projection_type |-> projection_type,
     selected_language |-> selected_language, changed |-> changed]

\* Every resource and component is "changed" for a system that has never
\* run; nothing has been generated yet.
InitExceptSection ==
    /\ concrete = Setup
    /\ file_dialog_state = FileDialogDefault
    /\ projection_type = "Perspective"
    /\ selected_language = "En"
    /\ meshes = [mesh |-> None, wireframe |-> None]
    /\ title = None
    /\ changed = [s \in Systems \ {"ui"} |-> TRUE]
    /\ ran = Systems
    /\ status = "running"
    /\ passes = 0
    /\ ev = [kind |-> "Startup"]
    /\ pre = [concrete |-> Setup, section_state |-> Inactive,
              file_dialog_state |-> FileDialogDefault,
              meshes |-> [mesh |-> None, wireframe |-> None],
              title |-> None, projection_type |-> "Perspective",
              selected_language |-> "En",
              changed |-> [s \in Systems \ {"ui"} |-> TRUE]]
    /\ io = {}
    /\ wrote = {}

Init ==
    /\ section_state = Inactive
    /\ InitExceptSection

\* The order of the systems within a pass: the command dispatcher first,
\* then the cross-section rule, then the mesh/title rules, then the file
\* dialog mediator.
Before(sys) ==
    CASE sys = "ui" -> {}
      [] sys = "update_cross_section" -> {"ui"}
      [] sys = "update_changed_polytopes" -> {"ui", "update_cross_section"}
      [] sys = "update_language" -> {"ui", "update_cross_section"}
      [] sys = "file_dialog" -> Systems \ {"file_dialog"}

Ready(sys) ==
    /\ status = "running"
    /\ ran # Systems
    /\ sys \notin ran
    /\ Before(sys) \subseteq ran

PassDone == status = "running" /\ ran = Systems

\* A write through DerefMut: flags the entity for every system observing it.
\* The observers: file_dialog of FileDialogState, update_cross_section of
\* SectionState, update_changed_polytopes of Concrete, update_language of
\* SelectedLanguage.
ObserverNoConcrete(entity) ==
    CASE entity = "FileDialogState" -> "file_dialog"
      [] entity = "SectionState" -> "update_cross_section"
      [] entity = "SelectedLanguage" -> "update_language"
      [] OTHER -> "none"
Observer(entity) ==
    CASE entity = "FileDialogState" -> "file_dialog"
      [] entity = "SectionState" -> "update_cross_section"
      [] entity = "Concrete" -> "update_changed_polytopes"
      [] entity = "SelectedLanguage" -> "update_language"
      [] OTHER -> "none"

FlagEverySystem(ch, entities) ==
    [s \in DOMAIN ch |-> ch[s] \/ entities # {}]
Flag(ch, entities) ==
    [s \in DOMAIN ch |->
        ch[s] \/ \E e \in entities : Observer(e) = s]

\* A system has run: what it observes is no longer "changed" for it.
MarkObservedNever(ch, sys) == ch
MarkObserved(ch, sys) == [ch EXCEPT ![sys] = FALSE]

\* ------------------------------------------------------------ `ui`
\* One run of `ui` in which the widgets leave the resources as given:
\* `touched` are the entities reached through DerefMut, `out` what was
\* called and printed.
UiFrame(e, c, s, fd, pt, lang, touched, out) ==
    /\ PassDone
    /\ passes < MaxPasses
    /\ passes' = passes + 1
    /\ ran' = {"ui"}
    /\ ev' = e
    /\ pre' = Snapshot
    /\ concrete' = c
    /\ section_state' = s
    /\ file_dialog_state' = fd
    /\ projection_type' = pt
    /\ selected_language' = lang
    /\ changed' = Flag(changed, touched)
    /\ io' = out
    /\ wrote' = {<<"ui", x>> : x \in touched}
    /\ UNCHANGED <<meshes, title, status>>

\* A frame in which no widget is activated.
NoInput ==
    UiFrame([kind |-> "None"], concrete, section_state, file_dialog_state,
            projection_type, selected_language, {}, {})

\* File > Open
ClickOpen ==
    UiFrame([kind |-> "Open"], concrete, section_state,
            open(file_dialog_state), projection_type, selected_language,
            {"FileDialogState"}, {})

\* File > Save
ClickSave ==
    UiFrame([kind |-> "Save"], concrete, section_state,
            save(file_dialog_state,
                 parse_uppercase(selected_language, name(concrete))),
            projection_type, selected_language, {"FileDialogState"}, {})

\* File > Exit
ClickExit ==
    /\ PassDone
    /\ passes < MaxPasses
    /\ passes' = passes + 1
    /\ ev' = [kind |-> "Exit"]
    /\ pre' = Snapshot
    /\ status' = "exited"
    /\ ran' = {"ui"}
    /\ io' = {"std::process::exit"}
    /\ wrote' = {}
    /\ UNCHANGED <<concrete, section_state, file_dialog_state,
                   projection_type, selected_language, meshes, title,
                   changed>>

\* View > Orthogonal projection
ClickOrthogonalNoWorkaround ==
    UiFrame([kind |-> "Orthogonal projection"], concrete, section_state,
            file_dialog_state, flip(projection_type), selected_language,
            {"ProjectionType"}, {})
ClickOrthogonal ==
    UiFrame([kind |-> "Orthogonal projection"], concrete, section_state,
            file_dialog_state, flip(projection_type), selected_language,
            {"ProjectionType", "Concrete"}, {})

\* Polytope > Operations > Dual
ClickDual ==
    \E ok \in BOOLEAN :
        UiFrame([kind |-> "Dual", ok |-> ok],
                IF ok THEN dual_mut(concrete) ELSE concrete,
                reset(section_state), file_dialog_state, projection_type,
                selected_language, {"Concrete", "SectionState"},
                {IF ok THEN "Dual succeeded." ELSE "Dual failed"})

\* Polytope > Operations > Pyramid
ClickPyramid ==
    UiFrame([kind |-> "Pyramid"], pyramid(concrete), reset(section_state),
            file_dialog_state, projection_type, selected_language,
            {"Concrete", "SectionState"}, {})

\* Polytope > Operations > Prism
ClickPrism ==
    UiFrame([kind |-> "Prism"], prism(concrete), reset(section_state),
            file_dialog_state, projection_type, selected_language,
            {"Concrete", "SectionState"}, {})

\* Polytope > Operations > Tegum
ClickTegumAliased ==
    UiFrame([kind |-> "Tegum"], tegum(concrete),
            IF IsActive(section_state)
            THEN [section_state EXCEPT
                    !.original_polytope = tegum(@)]
            ELSE section_state,
            file_dialog_state, projection_type, selected_language,
            {"Concrete"}, {})
ClickTegumResets ==
    UiFrame([kind |-> "Tegum"], tegum(concrete), reset(section_state),
            file_dialog_state, projection_type, selected_language,
            {"Concrete", "SectionState"}, {})
ClickTegum ==
    UiFrame([kind |-> "Tegum"], tegum(concrete), section_state,
            file_dialog_state, projection_type, selected_language,
            {"Concrete"}, {})

\* Polytope > Operations > Recenter
ClickRecenter ==
    UiFrame([kind |-> "Recenter"], recenter(concrete), reset(section_state),
            file_dialog_state, projection_type, selected_language,
            {"Concrete", "SectionState"}, {})

\* Polytope > Operations > Cross-section
ClickCrossSection ==
    \E answer \in (IF IsActive(section_state) THEN {None} ELSE MinmaxAnswers) :
        UiFrame([kind |-> "Cross-section", x_minmax |-> answer], concrete,
                Toggle(section_state, concrete, answer), file_dialog_state,
                projection_type, selected_language, {"SectionState"}, {})

\* Polytope > Elements > Facet
ClickFacet ==
    \E found \in BOOLEAN :
        UiFrame([kind |-> "Facet", ok |-> found],
                IF found THEN recenter(flatten(facet(concrete, 0)))
                         ELSE concrete,
                reset(section_state), file_dialog_state, projection_type,
                selected_language,
                {"SectionState"} \cup (IF found THEN {"Concrete"} ELSE {}),
                {"Facet", IF found THEN "Facet succeeded." ELSE "Facet failed."})

\* Polytope > Elements > Verf
ClickVerf ==
    \E found \in BOOLEAN :
        UiFrame([kind |-> "Verf", ok |-> found],
                IF found THEN recenter(flatten(verf(concrete, 0)))
                         ELSE concrete,
                reset(section_state), file_dialog_state, projection_type,
                selected_language,
                {"SectionState"} \cup (IF found THEN {"Concrete"} ELSE {}),
                {"Verf", IF found THEN "Verf succeeded." ELSE "Verf failed."})

\* Polytope > Properties > Orientability
ClickOrientability ==
    \E answer \in BOOLEAN :
        UiFrame([kind |-> "Orientability"], concrete, section_state,
                file_dialog_state, projection_type, selected_language, {},
                {IF answer THEN "The polytope is orientable."
                           ELSE "The polytope is not orientable."})

\* Polytope > Properties > Volume
ClickVolume ==
    \E answer \in BOOLEAN :
        UiFrame([kind |-> "Volume"], concrete, section_state,
                file_dialog_state, projection_type, selected_language, {},
                {IF answer THEN "The volume is"
                           ELSE "The polytope has no volume."})

\* Wiki > Main Page, Wiki > Current
ClickWiki ==
    \E page \in {"Main Page", "Current"}, opened \in BOOLEAN :
        UiFrame([kind |-> page], concrete, section_state,
                file_dialog_state, projection_type, selected_language, {},
                {"webbrowser::open"} \cup
                    (IF opened THEN {} ELSE {"Website opening failed!"}))

\* Language > lang
ClickLanguage ==
    \E lang \in Languages :
        UiFrame([kind |-> "Language", lang |-> lang], concrete,
                section_state, file_dialog_state, projection_type, lang,
                {"SelectedLanguage"}, {})

\* The values the "Slice depth" slider can hand back when dragged: the
\* ends of (minmax.0 + 0.00001)..=(minmax.1 - 0.00001).
SliderValues(minmax) == {minmax[1] + SliderEps, minmax[2] - SliderEps}

\* The slider of the cross-section settings is dragged.
DragSlider ==
    /\ IsActive(section_state)
    /\ \E new_hyperplane_pos \in SliderValues(section_state.minmax) :
        LET moved == section_state.hyperplane_pos # new_hyperplane_pos
        IN  UiFrame([kind |-> "Slice depth", pos |-> new_hyperplane_pos],
                    concrete,
                    IF moved THEN set_pos(section_state, new_hyperplane_pos)
                             ELSE section_state,
                    file_dialog_state, projection_type, selected_language,
                    IF moved THEN {"SectionState"} ELSE {}, {})

\* Cross section settings > Make main
ClickMakeMainRestores ==
    /\ IsActive(section_state)
    /\ UiFrame([kind |-> "Make main"], section_state.original_polytope,
               reset(section_state), file_dialog_state, projection_type,
               selected_language, {"Concrete", "SectionState"}, {})
ClickMakeMain ==
    /\ IsActive(section_state)
    /\ UiFrame([kind |-> "Make main"], concrete, reset(section_state),
               file_dialog_state, projection_type, selected_language,
               {"SectionState"}, {})

\* Cross section settings > Flatten
ClickFlatten ==
    /\ IsActive(section_state)
    /\ LET new_flatten == ~section_state.flatten
       IN  UiFrame([kind |-> "Flatten"], concrete,
                   set_flat(section_state, new_flatten), file_dialog_state,
                   projection_type, selected_language, {"SectionState"}, {})

\* A file is picked in the library panel; `ok` is whether it parses.
PickLibrary ==
    \E file \in Paths, ok \in BOOLEAN :
        UiFrame([kind |-> "Library", file |-> file, ok |-> ok],
                IF ok THEN from_path(file) ELSE concrete,
                IF ok THEN reset(section_state) ELSE section_state,
                file_dialog_state, projection_type, selected_language,
                IF ok THEN {"Concrete", "SectionState"} ELSE {},
                {"Concrete::from_path"} \cup
                    (IF ok THEN {} ELSE {"from_path: Err", "File open failed!"}))

\* ---------------------------------------------------- `file_dialog`
\* The system stops at a panic: nothing after it runs.
Panic(what) ==
    /\ status' = "panicked"
    /\ io' = io \cup what
    /\ UNCHANGED <<concrete, section_state, meshes, title, ran, wrote>>

\* The Save arm: `path` is what the save dialog returns, `written` whether
\* std::fs::write succeeds.
FileDialogSave(path, written) ==
    IF ~IsSome(file_dialog_state.name)
    THEN Panic({"panic: name.unwrap()"})
    ELSE IF ~IsSome(path)
    THEN /\ io' = io \cup {"save_file"}
         /\ ran' = ran \cup {"file_dialog"}
         /\ UNCHANGED <<concrete, section_state, meshes, title, status, wrote>>
    ELSE IF ~written
    THEN Panic({"save_file", "std::fs::write", "panic: write.unwrap()"})
    ELSE /\ io' = io \cup {"save_file", "std::fs::write"}
         /\ ran' = ran \cup {"file_dialog"}
         /\ UNCHANGED <<concrete, section_state, meshes, title, status, wrote>>

\* The Open arm: `path` is what the open dialog returns, `parsed` whether
\* Concrete::from_path succeeds.
FileDialogOpenCancelResets(path, parsed) ==
    IF ~IsSome(path)
    THEN /\ io' = io \cup {"pick_file"}
         /\ ran' = ran \cup {"file_dialog"}
         /\ section_state' = reset(section_state)
         /\ UNCHANGED <<concrete, meshes, title, status, wrote>>
    ELSE IF ~parsed
    THEN Panic({"pick_file", "Concrete::from_path", "from_path: Err",
                "panic: from_path.unwrap()"})
    ELSE /\ concrete' = recenter(from_path(Unwrap(path)))
         /\ section_state' = reset(section_state)
         /\ io' = io \cup {"pick_file", "Concrete::from_path"}
         /\ wrote' = wrote \cup {<<"file_dialog", "Concrete">>,
                                 <<"file_dialog", "SectionState">>}
         /\ ran' = ran \cup {"file_dialog"}
         /\ UNCHANGED <<meshes, title, status>>
FileDialogOpen(path, parsed) ==
    IF ~IsSome(path)
    THEN /\ io' = io \cup {"pick_file"}
         /\ ran' = ran \cup {"file_dialog"}
         /\ UNCHANGED <<concrete, section_state, meshes, title, status, wrote>>
    ELSE IF ~parsed
    THEN Panic({"pick_file", "Concrete::from_path", "from_path: Err",
                "panic: from_path.unwrap()"})
    ELSE /\ concrete' = recenter(from_path(Unwrap(path)))
         /\ section_state' = reset(section_state)
         /\ io' = io \cup {"pick_file", "Concrete::from_path"}
         /\ wrote' = wrote \cup {<<"file_dialog", "Concrete">>,
                                 <<"file_dialog", "SectionState">>}
         /\ ran' = ran \cup {"file_dialog"}
         /\ UNCHANGED <<meshes, title, status>>

\* file_dialog_state.is_changed(), and the arm of the match on its mode.
RequestedIgnoringChange(mode) == file_dialog_state.mode = mode
Requested(mode) ==
    changed["file_dialog"] /\ file_dialog_state.mode = mode

FileDialog ==
    /\ Ready("file_dialog")
    /\ IF Requested("Save")
       THEN \E path \in {None} \cup {Some(f) : f \in Paths},
               written \in BOOLEAN :
                /\ FileDialogSave(path, written)
                /\ changed' = MarkObserved(changed, "file_dialog")
       ELSE IF Requested("Open")
       THEN \E path \in {None} \cup {Some(f) : f \in Paths},
               parsed \in BOOLEAN :
                /\ FileDialogOpen(path, parsed)
                /\ changed' =
                     IF IsSome(path) /\ parsed
                     THEN MarkObserved(
                              Flag(changed, {"Concrete", "SectionState"}),
                              "file_dialog")
                     ELSE MarkObserved(changed, "file_dialog")
       ELSE /\ changed' = MarkObserved(changed, "file_dialog")
            /\ ran' = ran \cup {"file_dialog"}
            /\ UNCHANGED <<concrete, section_state, meshes, title, status,
                           io, wrote>>
    /\ UNCHANGED <<file_dialog_state, projection_type, selected_language,
                   passes, ev, pre>>

\* ------------------------------------------- `update_cross_section`
\* The slice the rule writes: `dim` is Some(r.dim()).
ResolveUnflattened(original_polytope, hyperplane_pos, flat, dim) ==
    slice(original_polytope, HyperplaneX(dim, hyperplane_pos + BotchEps))
Resolve(original_polytope, hyperplane_pos, flat, dim) ==
    LET r == original_polytope
        hyp_pos == hyperplane_pos + BotchEps
        hyperplane == HyperplaneX(dim, hyp_pos)
        sl == slice(r, hyperplane)
    IN  IF flat
        THEN recenter_with(flatten_into(sl, hyperplane), hyperplane)
        ELSE sl

UpdateCrossSection ==
    /\ Ready("update_cross_section")
    /\ IF changed["update_cross_section"] /\ IsActive(section_state)
       THEN \E answer \in DimAnswers :
                IF IsSome(answer)
                THEN /\ concrete' =
                          Resolve(section_state.original_polytope,
                                  section_state.hyperplane_pos,
                                  section_state.flatten, Unwrap(answer))
                     /\ changed' =
                          MarkObserved(Flag(changed, {"Concrete"}),
                                       "update_cross_section")
                     /\ wrote' = wrote \cup
                                   {<<"update_cross_section", "Concrete">>}
                     /\ io' = io \cup {"slice"}
                ELSE /\ changed' =
                          MarkObserved(changed, "update_cross_section")
                     /\ io' = io \cup {"r.dim() is None"}
                     /\ UNCHANGED <<concrete, wrote>>
       ELSE /\ changed' = MarkObserved(changed, "update_cross_section")
            /\ UNCHANGED <<concrete, wrote, io>>
    /\ ran' = ran \cup {"update_cross_section"}
    /\ UNCHANGED <<section_state, file_dialog_state, projection_type,
                   selected_language, meshes, title, status, passes, ev, pre>>

\* --------------------------------------- `update_changed_polytopes`
UpdateChangedPolytopes ==
    /\ Ready("update_changed_polytopes")
    /\ IF changed["update_changed_polytopes"]
       THEN /\ meshes' = [mesh |-> Some(get_mesh(concrete, projection_type)),
                          wireframe |->
                              Some(get_wireframe(concrete, projection_type))]
            /\ title' = Some(parse_uppercase(selected_language,
                                             name(concrete)))
            /\ io' = io \cup {"get_mesh", "get_wireframe", "set_title"}
       ELSE UNCHANGED <<meshes, title, io>>
    /\ changed' = MarkObserved(changed, "update_changed_polytopes")
    /\ ran' = ran \cup {"update_changed_polytopes"}
    /\ UNCHANGED <<concrete, section_state, file_dialog_state,
                   projection_type, selected_language, status, passes, ev,
                   pre, wrote>>

\* ------------------------------------------------ `update_language`
UpdateLanguage ==
    /\ Ready("update_language")
    /\ IF changed["update_language"]
       THEN /\ title' = Some(parse(selected_language, name(concrete)))
            /\ io' = io \cup {"set_title"}
       ELSE UNCHANGED <<title, io>>
    /\ changed' = MarkObserved(changed, "update_language")
    /\ ran' = ran \cup {"update_language"}
    /\ UNCHANGED <<concrete, section_state, file_dialog_state,
                   projection_type, selected_language, meshes, status,
                   passes, ev, pre, wrote>>

\* ------------------------------------------------------------ passes
Next ==
    \/ NoInput
    \/ ClickOpen
    \/ ClickSave
    \/ ClickExit
    \/ ClickOrthogonal
    \/ ClickDual
    \/ ClickPyramid
    \/ ClickPrism
    \/ ClickTegum
    \/ ClickRecenter
    \/ ClickCrossSection
    \/ ClickFacet
    \/ ClickVerf
    \/ ClickOrientability
    \/ ClickVolume
    \/ ClickWiki
    \/ ClickLanguage
    \/ DragSlider
    \/ ClickMakeMain
    \/ ClickFlatten
    \/ PickLibrary
    \/ UpdateCrossSection
    \/ UpdateChangedPolytopes
    \/ UpdateLanguage
    \/ FileDialog

Spec == Init /\ [][Next]_vars

\* ------------------------------------------------------------ claims
\* A pass has been started and `ev` is its input.
InPass == passes > 0

\* The dialog collaborator was called in this pass.
DialogCalled == io \cap {"pick_file", "save_file"} # {}

\* The mediator loaded a file in this pass.
DialogLoaded == <<"file_dialog", "Concrete">> \in wrote

\* C1: if SectionState is Active at the start of a pass and the pass applies
\* dual, pyramid, prism, facet or verf to the live shape, or loads a file
\* (library pick, or an Open dialog that returns a file which parses), then
\* SectionState is Inactive once the operation has run, and so at the end
\* of the pass.
C1_Applied ==
    \/ ev.kind \in {"Pyramid", "Prism"}
    \/ ev.kind \in {"Dual", "Facet", "Verf"} /\ ev.ok
    \/ ev.kind = "Library" /\ ev.ok
    \/ DialogLoaded
C1_InvalidatingOpDeactivates ==
    (InPass /\ IsActive(pre.section_state) /\ C1_Applied)
        => section_state = Inactive
C1_Witness ==
    /\ PassDone
    /\ IsActive(pre.section_state)
    /\ DialogLoaded
    /\ section_state = Inactive

\* C2 as stated: tegum or recenter applied while Active leaves SectionState
\* as it was.
C2_TegumRecenterKeep ==
    (InPass /\ IsActive(pre.section_state)
        /\ ev.kind \in {"Tegum", "Recenter"})
        => section_state = pre.section_state
\* C2 amended: tegum is the only topological operation that leaves an Active
\* SectionState untouched (same original, range, position and flatten);
\* recenter deactivates it like dual, pyramid, prism, facet and verf.
C2_OnlyTegumKeeps ==
    /\ (InPass /\ IsActive(pre.section_state) /\ ev.kind = "Tegum")
           => section_state = pre.section_state
    /\ (InPass /\ IsActive(pre.section_state)
           /\ ev.kind \in {"Dual", "Pyramid", "Prism", "Recenter",
                           "Facet", "Verf"})
           => section_state = Inactive
C2_Witness ==
    /\ PassDone
    /\ ev.kind = "Tegum"
    /\ IsActive(pre.section_state)
    /\ section_state = pre.section_state
    /\ concrete = tegum(pre.concrete)

\* C3: when dual, facet or verf fails, the live shape and SectionState are
\* what they were before the attempt.
C3_FailureLeavesState ==
    (InPass /\ ev.kind \in {"Dual", "Facet", "Verf"} /\ ~ev.ok)
        => /\ concrete = pre.concrete
           /\ section_state = pre.section_state

\* C4: a file that fails to parse, whether chosen in the Open dialog or in
\* the library, is reported and not fatal: the shape and SectionState stay
\* as they were and the pass goes on.
C4_LoadFailureNotFatal ==
    (InPass /\ "from_path: Err" \in io)
        => /\ status = "running"
           /\ "File open failed!" \in io
           /\ concrete = pre.concrete
           /\ section_state = pre.section_state

\* C5: once the mediator has consumed a request (the slot holds one and is
\* not changed for the mediator), a pass that issues no new request calls no
\* dialog, loads nothing, replaces no shape through the mediator and writes
\* no file.
C5_Consumed ==
    /\ pre.file_dialog_state.mode \in {"Open", "Save"}
    /\ ~pre.changed["file_dialog"]
C5_AtMostOnce ==
    (InPass /\ C5_Consumed /\ ev.kind \notin {"Open", "Save"})
        => /\ ~DialogCalled
           /\ "std::fs::write" \notin io
           /\ ~DialogLoaded
           /\ (ev.kind # "Library" => "Concrete::from_path" \notin io)
C5_Witness ==
    /\ PassDone
    /\ C5_Consumed
    /\ pre.file_dialog_state.mode = "Open"
    /\ ev.kind = "None"
    /\ concrete = pre.concrete

\* C6 as stated: at the end of a pass in which the mediator handled a
\* request (a path was returned, or the dialog was cancelled), the slot is
\* back to Disabled.
C6_SlotCleared ==
    (PassDone /\ DialogCalled) => file_dialog_state.mode = "Disabled"
\* C6 amended: at the end of such a pass the request is no longer pending,
\* because the slot is not changed for the mediator any more; its mode is
\* never cleared and still reads Open or Save, as requested.
C6_RequestObserved ==
    (PassDone /\ DialogCalled)
        => /\ ~changed["file_dialog"]
           /\ file_dialog_state.mode =
                 (IF "pick_file" \in io THEN "Open" ELSE "Save")
C6_Witness ==
    /\ PassDone
    /\ "pick_file" \in io
    /\ ~DialogLoaded
    /\ file_dialog_state.mode = "Open"
    /\ ~changed["file_dialog"]

\* C7: the Cross-section toggle on an Inactive state, for a shape whose
\* x_minmax() is Some((min, max)), gives Active with range (min, max),
\* position the midpoint, flatten false and original the live shape of
\* that instant; the extent (-2, 3) gives position 0.5.
C7_Activation ==
    (InPass /\ ev.kind = "Cross-section" /\ ~IsActive(pre.section_state)
        /\ IsSome(ev.x_minmax))
        => LET mm == Unwrap(ev.x_minmax)
           IN  /\ IsActive(section_state)
               /\ section_state.minmax = mm
               /\ 2 * section_state.hyperplane_pos = mm[1] + mm[2]
               /\ section_state.flatten = FALSE
               /\ section_state.original_polytope = pre.concrete
               /\ (mm = <<-2 * One, 3 * One>>
                      => section_state.hyperplane_pos = One \div 2)
C7_Witness ==
    /\ PassDone
    /\ ev.kind = "Cross-section"
    /\ ev.x_minmax = Some(<<-2 * One, 3 * One>>)
    /\ IsActive(section_state)
    /\ section_state.hyperplane_pos = One \div 2
    /\ section_state.original_polytope = pre.concrete
    /\ concrete # pre.concrete

\* C8: in every Active state range.min < range.max.
C8_RangeNonDegenerate ==
    IsActive(section_state)
        => section_state.minmax[1] < section_state.minmax[2]

\* C9: in every Active state position lies strictly between range.min and
\* range.max.
C9_PositionInsideRange ==
    IsActive(section_state)
        => /\ section_state.minmax[1] < section_state.hyperplane_pos
           /\ section_state.hyperplane_pos < section_state.minmax[2]

\* ------------------------------------- SectionState's methods alone
\* The SectionState values the methods are called on, and their arguments.
Positions == {-One, 0, One \div 2, 3 * One}
SectionInputs ==
    {Inactive} \cup
    {Active(p, mm, pos, flat) :
        p \in {Setup, from_path(1)},
        mm \in {FallbackMinmax, <<-2 * One, 3 * One>>},
        pos \in Positions, flat \in BOOLEAN}

InitSection ==
    /\ section_state \in SectionInputs
    /\ InitExceptSection

Called(e) ==
    /\ ev' = e
    /\ pre' = Snapshot
    /\ UNCHANGED <<concrete, file_dialog_state, projection_type,
                   selected_language, meshes, title, changed, ran, status,
                   passes, io, wrote>>

CallReset ==
    /\ section_state' = reset(section_state)
    /\ Called([kind |-> "reset", after |-> ev.kind])

CallSetPos ==
    \E pos \in Positions :
        /\ section_state' = set_pos(section_state, pos)
        /\ Called([kind |-> "set_pos", after |-> ev.kind, pos |-> pos])

CallSetFlat ==
    \E flat \in BOOLEAN :
        /\ section_state' = set_flat(section_state, flat)
        /\ Called([kind |-> "set_flat", after |-> ev.kind, flat |-> flat])

NextSection == CallReset \/ CallSetPos \/ CallSetFlat

SpecSection == InitSection /\ [][NextSection]_vars

\* C10: set_pos and set_flat leave an Inactive state Inactive (also right
\* after reset); on an Active state set_pos changes the position only and
\* set_flat the flatten flag only.
C10_SettersFrame ==
    /\ (ev.kind \in {"set_pos", "set_flat"} /\ ~IsActive(pre.section_state))
           => section_state = Inactive
    /\ (ev.kind = "set_pos" /\ IsActive(pre.section_state))
           => /\ IsActive(section_state)
              /\ section_state.hyperplane_pos = ev.pos
              /\ section_state.original_polytope =
                     pre.section_state.original_polytope
              /\ section_state.minmax = pre.section_state.minmax
              /\ section_state.flatten = pre.section_state.flatten
    /\ (ev.kind = "set_flat" /\ IsActive(pre.section_state))
           => /\ IsActive(section_state)
              /\ section_state.flatten = ev.flat
              /\ section_state.original_polytope =
                     pre.section_state.original_polytope
              /\ section_state.minmax = pre.section_state.minmax
              /\ section_state.hyperplane_pos =
                     pre.section_state.hyperplane_pos
C10_Witness ==
    /\ ev.kind = "set_pos"
    /\ ev.after = "reset"
    /\ IsActive(pre.section_state) = FALSE
    /\ section_state = Inactive

\* ------------------------------------------------ claims, continued
\* The cross-section rule replaced the live shape in this pass.
SliceWritten == <<"update_cross_section", "Concrete">> \in wrote

\* The mesh and title rules have both run in this pass.
RulesRan == {"update_changed_polytopes", "update_language"} \subseteq ran

RuleStep ==
    "update_cross_section" \notin ran /\ "update_cross_section" \in ran'

\* resolve() of an Active state s in dimension d: the slice of the original
\* at position + epsilon, flattened and recentred if flatten is set.
C12_Resolved(s, d) ==
    LET h == HyperplaneX(d, s.hyperplane_pos + BotchEps)
        cut == slice(s.original_polytope, h)
    IN  IF s.flatten THEN recenter_with(flatten_into(cut, h), h) ELSE cut

\* C12: the cross-section rule writes the live shape only when SectionState
\* is changed since the rule last ran and is Active, and what it writes is
\* resolve(original, position, flatten); otherwise (Inactive, or unchanged)
\* it leaves the live shape untouched.  The one changed and Active case
\* without a write is an original that reports no dimension, for which
\* no hyperplane exists.
C12_RuleWritesResolved ==
    [][RuleStep =>
        /\ \/ concrete' = concrete /\ wrote' = wrote
           \/ /\ changed["update_cross_section"]
              /\ IsActive(section_state)
              /\ \E answer \in DimAnswers :
                   /\ IsSome(answer)
                   /\ concrete' =
                         C12_Resolved(section_state, Unwrap(answer))
        /\ (changed["update_cross_section"] /\ IsActive(section_state))
              => (SliceWritten' \/ "r.dim() is None" \in io')]_vars
C12_Witness ==
    /\ ran = {"ui", "update_cross_section"}
    /\ SliceWritten
    /\ IsActive(section_state)
    /\ section_state.flatten
    /\ concrete = C12_Resolved(section_state, 3)
    /\ concrete # pre.concrete

\* The mesh rule has run in this pass.
MeshRuleRan == "update_changed_polytopes" \in ran

\* The live shape was reached mutably since the mesh rule last ran: before
\* this pass (after the rule's previous run), by the command of this pass,
\* or by the cross-section rule of this pass.
C13_Due ==
    \/ pre.changed["update_changed_polytopes"]
    \/ <<"ui", "Concrete">> \in wrote
    \/ SliceWritten

\* C13: the mesh rule regenerates the solid and the wireframe mesh exactly
\* in the passes in which the live shape was mutated since the rule last
\* ran; a flip of the projection is such a pass and yields meshes of the
\* new projection; a pass without input, with a query or with a language
\* switch, and nothing pending, regenerates nothing.
C13_RegeneratesWhenDue ==
    (InPass /\ MeshRuleRan) =>
        /\ ("get_mesh" \in io) <=> C13_Due
        /\ ("get_wireframe" \in io) <=> C13_Due
        /\ ev.kind = "Orthogonal projection" =>
              /\ "get_mesh" \in io
              /\ projection_type # pre.projection_type
              /\ meshes.mesh = Some(get_mesh(concrete, projection_type))
              /\ meshes.wireframe =
                    Some(get_wireframe(concrete, projection_type))
        /\ ( /\ ev.kind \in {"None", "Orientability", "Volume", "Language"}
             /\ ~pre.changed["update_changed_polytopes"] ) =>
              /\ "get_mesh" \notin io
              /\ "get_wireframe" \notin io
              /\ meshes = pre.meshes
C13_Witness ==
    /\ PassDone
    /\ ev.kind = "Orthogonal projection"
    /\ ~pre.changed["update_changed_polytopes"]
    /\ "get_mesh" \in io
    /\ meshes # pre.meshes
C13_Quiet ==
    /\ PassDone
    /\ ev.kind = "Language"
    /\ ~pre.changed["update_changed_polytopes"]
    /\ selected_language # pre.selected_language

\* The pass is over and the live shape or the language differs from what
\* it was at the start of the pass.
C14_Triggered ==
    /\ InPass
    /\ PassDone
    /\ (concrete # pre.concrete \/ selected_language # pre.selected_language)

\* C14 as stated: after any pass in which the live shape or the language
\* changed, the title is a rendering of the current shape's name in the
\* current language, and it is the same rendering as that of the title
\* before the pass, whichever trigger produced either.
C14_OneRendering ==
    C14_Triggered =>
        /\ title \in {Some(parse_uppercase(selected_language, name(concrete))),
                      Some(parse(selected_language, name(concrete)))}
        /\ IsSome(pre.title) =>
              Unwrap(title).uppercase = Unwrap(pre.title).uppercase
\* The part of C14 about the rendering alone: a title set in this pass is
\* rendered as the title before the pass was.
C14_SameRendering ==
    (InPass /\ PassDone /\ "set_title" \in io /\ IsSome(pre.title))
        => Unwrap(title).uppercase = Unwrap(pre.title).uppercase

\* C15: in every step that ends in an Active state, original is what it
\* was before the step if the state was Active already, and is the live
\* shape of before the step if the step activated; so while the state
\* stays Active, no slider update, flatten toggle, tegum or slice written
\* by the cross-section rule changes original.
C15_OriginalFrozen ==
    [][IsActive(section_state') =>
         section_state'.original_polytope =
            (IF IsActive(section_state)
             THEN section_state.original_polytope
             ELSE concrete)]_vars
C15_Witness ==
    /\ PassDone
    /\ ev.kind \in {"Slice depth", "Flatten", "Tegum"}
    /\ IsActive(pre.section_state)
    /\ IsActive(section_state)
    /\ section_state.original_polytope = pre.section_state.original_polytope
    /\ concrete # pre.concrete
    /\ concrete # section_state.original_polytope
    /\ pre.concrete # section_state.original_polytope

\* The dialog of this pass returned no selection: it was called, and
\* neither a file was read nor one written.
C16_Cancelled ==
    \/ "pick_file" \in io /\ "Concrete::from_path" \notin io
    \/ "save_file" \in io /\ "std::fs::write" \notin io

\* C16: a pass whose Open or Save dialog is cancelled ends with the live
\* shape and SectionState as they were at the start of the pass, with no
\* file written or read and nothing written by the mediator, without a
\* failure, and with the request no longer pending, so that the mediator
\* does not call the dialog again until a new request is made.
C16_CancelIsNoOp ==
    (InPass /\ C16_Cancelled) =>
        /\ status = "running"
        /\ concrete = pre.concrete
        /\ section_state = pre.section_state
        /\ io \cap {"std::fs::write", "Concrete::from_path"} = {}
        /\ \A e \in {"Concrete", "SectionState", "FileDialogState"} :
              <<"file_dialog", e>> \notin wrote
        /\ ~changed["file_dialog"]
        /\ ~Requested("Open")
        /\ ~Requested("Save")
C16_Witness ==
    /\ PassDone
    /\ ev.kind = "Open"
    /\ C16_Cancelled
    /\ IsActive(section_state)
    /\ section_state = pre.section_state
    /\ concrete = pre.concrete

\* The systems of a pass that wrote entity e in this pass.
Writers(e) ==
    {s \in {"ui", "update_cross_section", "file_dialog"} : <<s, e>> \in wrote}

\* C17: in every pass, at most one of ui, update_cross_section and
\* file_dialog writes the live shape, and at most one of them writes
\* SectionState.
C17_SingleWriter ==
    InPass => /\ Cardinality(Writers("Concrete")) <= 1
              /\ Cardinality(Writers("SectionState")) <= 1
C17_Witness ==
    /\ PassDone
    /\ Writers("SectionState") = {"ui"}
    /\ Writers("Concrete") = {"update_cross_section"}
    /\ ev.kind = "Flatten"

\* The Cross-section toggle of this pass found the state Inactive and a
\* shape whose x_minmax() is None.
C18_NoExtent ==
    /\ InPass
    /\ ev.kind = "Cross-section"
    /\ ~IsActive(pre.section_state)
    /\ ev.x_minmax = None

\* C18 as stated: toggling the cross-section from Inactive on a shape that
\* reports no extent leaves SectionState Inactive and raises nothing.
C18_FailsIntoInactive ==
    C18_NoExtent => (section_state = Inactive /\ status = "running")
\* C18 amended: toggling the cross-section from Inactive on a shape that
\* reports no extent activates with the default range (-1, 1), position 0,
\* flatten false and original the live shape of that instant, and raises
\* nothing.
C18_FallbackActivation ==
    C18_NoExtent =>
        /\ section_state = Active(pre.concrete, <<-One, One>>, 0, FALSE)
        /\ status = "running"
        /\ io \cap {"panic: from_path.unwrap()", "panic: write.unwrap()",
                    "panic: name.unwrap()"} = {}
C18_Witness ==
    /\ PassDone
    /\ C18_NoExtent
    /\ IsActive(section_state)
    /\ section_state.minmax = <<-One, One>>
    /\ section_state.hyperplane_pos = 0
    /\ section_state.original_polytope = pre.concrete

\* C19: in every reachable state, a FileDialogState in mode Save carries a
\* name, whatever Open and Save requests came before, and the mediator's
\* unwrap of the name when it handles a Save request never fails.
C19_SaveHasName ==
    /\ file_dialog_state.mode = "Save" => IsSome(file_dialog_state.name)
    /\ "panic: name.unwrap()" \notin io
C19_Witness ==
    /\ PassDone
    /\ ev.kind = "Save"
    /\ pre.file_dialog_state.mode = "Open"
    /\ file_dialog_state.mode = "Save"
    /\ IsSome(file_dialog_state.name)
    /\ "save_file" \in io

\* The command of this pass left cross-section mode: the Cross-section
\* toggle or Make main on a state that was Active.
C20_Left ==
    /\ InPass
    /\ IsActive(pre.section_state)
    /\ ev.kind \in {"Cross-section", "Make main"}

\* C20: leaving cross-section mode by the Cross-section toggle or by Make
\* main sets SectionState to Inactive and changes nothing else: nobody
\* writes the live shape in that pass, so it is still the shape of the
\* start of the pass (the slice last shown) and not the original snapshot
\* brought back.
C20_LeavingKeepsShape ==
    C20_Left =>
        /\ section_state = Inactive
        /\ concrete = pre.concrete
        /\ Writers("Concrete") = {}
        /\ Writers("SectionState") = {"ui"}
        /\ "slice" \notin io
        /\ file_dialog_state = pre.file_dialog_state
        /\ projection_type = pre.projection_type
        /\ selected_language = pre.selected_language
C20_Witness ==
    /\ PassDone
    /\ C20_Left
    /\ ev.kind = "Make main"
    /\ section_state = Inactive
    /\ concrete = C12_Resolved(pre.section_state, 3)
    /\ concrete # pre.section_state.original_polytope
C20_ToggleOff ==
    /\ PassDone
    /\ C20_Left
    /\ ev.kind = "Cross-section"
    /\ concrete = C12_Resolved(pre.section_state, 3)
    /\ concrete # pre.section_state.original_polytope

====
